---- MODULE Spec2Model ----
(***************************************************************************)
(* A model of filetool: WinFile (files.py), the process-wide              *)
(* initialization tier, and FileCollection (add / remove / sort_by /      *)
(* iteration / set algebra / tree factories).                             *)
(*                                                                         *)
(* Absolute paths are the integers 1..NPaths, ordered as the strings are. *)
(* A path string handed to the API is an integer of 0..NPaths+1: 0 is a   *)
(* path at which nothing exists, NPaths+1 is a relative spelling of 1.    *)
(* WinFile objects live in a heap (ents) and are referred to by identity. *)
(***************************************************************************)
EXTENDS Integers, Sequences, FiniteSets, TLC

VARIABLES
    disk,        \* the file system: path -> content of the regular file, or NoFile
    init_mode,   \* WinFile.init_mode
    initialize,  \* the function WinFile.initialize is bound to
    ents,        \* heap of WinFile objects: identity -> slots
    fc,          \* the FileCollection objects A, B and R (the last returned one)
    last,        \* outcome of the last call: what ran, what it raised / printed
    steps        \* number of calls made so far

vars == <<disk, init_mode, initialize, ents, fc, last, steps>>

(************************** bounds of the model ***************************)
NPaths == 2
MaxContent == 1
MaxSteps == 3
MaxDigits == 3
MaxPrecision == 2

(****************************** file system *******************************)
NoFile == -1
Unset == -1
Paths == 1..NPaths
Strs == 0..(NPaths + 1)
Contents == 0..MaxContent
Dirs == 0..NPaths

\* os.path.isdir: directory d (1..NPaths) holds the files p >= d, so that
\* directory d + 1 is a subdirectory of d; nothing exists at 0
isdir(d) == d \in 1..NPaths

Min(a, b) == IF a < b THEN a ELSE b

\* the file systems a run starts from: sizes growing with the path, shrinking
\* with it, all equal, and alternating
InitDisks ==
    {[p \in Paths |-> Min(p - 1, MaxContent)],
     [p \in Paths |-> Min(NPaths - p, MaxContent)],
     [p \in Paths |-> 0],
     [p \in Paths |-> Min(p % 2, MaxContent)]}
Ids == 1..(4 * NPaths)
FCNames == {"A", "B", "R"}

\* os.path.abspath: a relative spelling resolves to the absolute path
abspath(s) == IF s > NPaths THEN s - NPaths ELSE s

\* os.path.isfile
isfile(s) == abspath(s) \in DOMAIN disk /\ disk[abspath(s)] # NoFile

\* os.path.getsize: a content is identified with its length in bytes
getsize(p) == disk[p]

\* meth.md5file: the digest of the whole content, a value other than the content
md5file(p) == 100 + disk[p]

(******************************** WinFile *********************************)
FreeEnt == [abspath |-> 0, size_on_disk |-> Unset, md5 |-> Unset]

level1_initialize(p) == [abspath |-> p, size_on_disk |-> Unset, md5 |-> Unset]

level2_initialize(p) == [abspath |-> p, size_on_disk |-> getsize(p), md5 |-> Unset]

level3_initialize(p) ==
    [abspath |-> p, size_on_disk |-> getsize(p), md5 |-> md5file(p)]

\* the tier the bound initializer applies; the class body binds `initialize`,
\* which calls level2_initialize
Level(f) ==
    CASE f = "level1_initialize" -> 1
      [] f = "level2_initialize" -> 2
      [] f = "level3_initialize" -> 3
      [] OTHER -> 2

\* every mode bound to the regular initializer
ModeNameAlwaysRegular(m) == "level2_initialize"

\* what set_initialize_mode binds WinFile.initialize to
ModeName(m) ==
    CASE m = 3 -> "level3_initialize"
      [] m = 2 -> "level2_initialize"
      [] OTHER -> "level1_initialize"

\* WinFile(abspath) for a path that is a regular file, by the initializer f
WinFileBy(f, s) ==
    CASE Level(f) = 1 -> level1_initialize(abspath(s))
      [] Level(f) = 2 -> level2_initialize(abspath(s))
      [] OTHER -> level3_initialize(abspath(s))

WinFile(s) == WinFileBy(initialize, s)

AttrNames == {"abspath", "size_on_disk", "md5", "nosuch"}

\* getattr(winfile, attr_name) raises AttributeError on an unset slot or unknown name
HasAttr(e, a) ==
    CASE a = "abspath" -> TRUE
      [] a = "size_on_disk" -> e.size_on_disk # Unset
      [] a = "md5" -> e.md5 # Unset
      [] OTHER -> FALSE

GetAttr(e, a) ==
    CASE a = "abspath" -> e.abspath
      [] a = "size_on_disk" -> e.size_on_disk
      [] OTHER -> e.md5

(***************************** FileCollection *****************************)
EmptyFC == [files |-> <<>>, hasorder |-> FALSE, order |-> <<>>]

Range(s) == {s[i] : i \in DOMAIN s}

Keys(c) == {c.files[i].key : i \in DOMAIN c.files}

KeySeq(c) == [i \in DOMAIN c.files |-> c.files[i].key]

EntSeq(c) == [i \in DOMAIN c.files |-> c.files[i].ent]

\* self.files[k]
Lookup(c, k) == c.files[CHOOSE i \in DOMAIN c.files : c.files[i].key = k].ent

\* del self.files[k]
DelKey(c, k) == SelectSeq(c.files, LAMBDA x : x.key # k)

LiveIds(f) == UNION {Range(EntSeq(f[n])) : n \in FCNames}

\* unreferenced objects are reclaimed
Collect(h, f) == [i \in Ids |-> IF i \in LiveIds(f) THEN h[i] ELSE FreeEnt]

\* the identity a newly created object gets
NewId == CHOOSE i \in Ids : i \notin LiveIds(fc) /\ \A j \in Ids : j < i => j \in LiveIds(fc)


\* sorted() with the reverse argument dropped
InOrderIgnoresReverse(x, y, reverse) == x <= y

\* the order sorted() puts two values in: ascending, or descending with reverse
InOrder(x, y, reverse) == IF reverse THEN x >= y ELSE x <= y

\* sorted(list(d.items()), key=lambda t: t[1], reverse=reverse): every arrangement
\* of the keys that is ordered by value (a plain dict fixes no order among ties)
Sorted(c, a, reverse) ==
    LET n == Len(c.files)
        val(k) == GetAttr(ents[Lookup(c, k)], a)
    IN  {o \in [1..n -> Keys(c)] :
            /\ \A i, j \in 1..n : i # j => o[i] # o[j]
            /\ \A i, j \in 1..n : i < j => InOrder(val(o[i]), val(o[j]), reverse)}

\* FileCollection.iterpaths: the order attribute if there is one, else the keys
iterpaths(c) == IF c.hasorder THEN c.order ELSE KeySeq(c)

\* the entries of self.order before the first one that is no key of self.files
OrderPrefix(c) ==
    LET bad == {i \in DOMAIN c.order : c.order[i] \notin Keys(c)}
        stop == IF bad = {} THEN Len(c.order) + 1
                ELSE CHOOSE i \in bad : \A j \in bad : i <= j
    IN  [i \in 1..(stop - 1) |-> Lookup(c, c.order[i])]

\* FileCollection.iterfiles: yields along self.order; a KeyError (or the missing
\* attribute) lands in the bare except, which yields all of self.files.values()
iterfiles(c) ==
    IF c.hasorder /\ Range(c.order) \subseteq Keys(c)
    THEN OrderPrefix(c)
    ELSE IF c.hasorder THEN OrderPrefix(c) \o EntSeq(c)
    ELSE EntSeq(c)

(******************************** actions *********************************)
\* a call that returned: on which collection, with which argument (its kind, the
\* other operand or the attribute name), the path the argument names, whether
\* reverse was asked for, whether prt printed
Said(op, c, arg, p, msg) ==
    [op |-> op, fc |-> c, arg |-> arg, path |-> p, reverse |-> FALSE,
     raised |-> "", msg |-> msg]

\* a call that raised exc and changed nothing
Raise(op, c, arg, p, exc) ==
    /\ last' = [op |-> op, fc |-> c, arg |-> arg, path |-> p, reverse |-> FALSE,
                raised |-> exc, msg |-> FALSE]
    /\ steps' = steps + 1
    /\ UNCHANGED <<disk, init_mode, initialize, ents, fc>>

\* what a caller can pass where a path or a WinFile is expected
Args ==
    {[kind |-> "str", v |-> s] : s \in Strs}
        \cup {[kind |-> "WinFile", v |-> i] : i \in LiveIds(fc)}
        \cup {[kind |-> "other", v |-> 0]}

\* add without its membership test
AlreadyInNever(c, winfile) == FALSE

\* add's test `winfile.abspath in self.files`
AlreadyIn(c, winfile) == winfile.abspath \in Keys(c)

\* FileCollection.add
add(c, arg) ==
    /\ steps < MaxSteps
    /\ IF arg.kind = "other" THEN Raise("add", c, "other", 0, "TypeError")
       ELSE IF arg.kind = "str" /\ ~isfile(arg.v)
       THEN Raise("add", c, "str", abspath(arg.v), "EnvironmentError")
       ELSE LET id == IF arg.kind = "str" THEN NewId ELSE arg.v
                winfile == IF arg.kind = "str" THEN WinFile(arg.v) ELSE ents[arg.v]
            IN  /\ IF AlreadyIn(fc[c], winfile)
                   THEN /\ last' = Said("add", c, arg.kind, winfile.abspath, TRUE)
                        /\ UNCHANGED <<fc, ents>>
                   ELSE /\ last' = Said("add", c, arg.kind, winfile.abspath, FALSE)
                        /\ fc' = [fc EXCEPT ![c].files =
                                    Append(@, [key |-> winfile.abspath, ent |-> id])]
                        /\ ents' = [ents EXCEPT ![id] = winfile]
                /\ steps' = steps + 1
                /\ UNCHANGED <<disk, init_mode, initialize>>

\* FileCollection.remove
remove(c, arg) ==
    /\ steps < MaxSteps
    /\ IF arg.kind = "other" THEN Raise("remove", c, "other", 0, "TypeError")
       ELSE IF arg.kind = "str" /\ ~isfile(arg.v)
       THEN Raise("remove", c, "str", abspath(arg.v), "EnvironmentError")
       ELSE LET winfile == IF arg.kind = "str" THEN WinFile(arg.v) ELSE ents[arg.v]
                after == [fc EXCEPT ![c].files = DelKey(fc[c], winfile.abspath)]
            IN  /\ IF winfile.abspath \in Keys(fc[c])
                   THEN /\ last' = Said("remove", c, arg.kind, winfile.abspath, FALSE)
                        /\ fc' = after
                        /\ ents' = Collect(ents, after)
                   ELSE /\ last' = Said("remove", c, arg.kind, winfile.abspath, TRUE)
                        /\ UNCHANGED <<fc, ents>>
                /\ steps' = steps + 1
                /\ UNCHANGED <<disk, init_mode, initialize>>

\* FileCollection.sort_by
sort_by(c, attr_name, reverse) ==
    /\ steps < MaxSteps
    /\ IF \E i \in DOMAIN fc[c].files : ~HasAttr(ents[fc[c].files[i].ent], attr_name)
       THEN Raise("sort_by", c, attr_name, 0, "ValueError")
       ELSE /\ \E o \in Sorted(fc[c], attr_name, reverse) :
                 fc' = [fc EXCEPT ![c].hasorder = TRUE, ![c].order = o]
            /\ last' = [Said("sort_by", c, attr_name, 0, FALSE) EXCEPT !.reverse = reverse]
            /\ steps' = steps + 1
            /\ UNCHANGED <<disk, init_mode, initialize, ents>>

\* WinFile.set_initialize_mode
set_initialize_mode(complexity) ==
    /\ steps < MaxSteps
    /\ IF complexity \in {1, 2, 3}
       THEN /\ init_mode' = complexity
            /\ initialize' = ModeName(complexity)
            /\ last' = Said("set_initialize_mode", "", "", 0, FALSE)
            /\ steps' = steps + 1
            /\ UNCHANGED <<disk, ents, fc>>
       ELSE Raise("set_initialize_mode", "", "", 0, "ValueError")

\* the k-th identity handed out by a call that creates several objects
NewIdN(k) ==
    LET free == Ids \ LiveIds(fc)
    IN  CHOOSE i \in free : Cardinality({j \in free : j < i}) = k - 1

FirstIdx(c, id) ==
    CHOOSE i \in DOMAIN c.files :
        c.files[i].ent = id /\ \A j \in DOMAIN c.files : c.files[j].ent = id => i <= j

\* copy.deepcopy memoises: each distinct WinFile of c is copied once
CopyOf(c, id) ==
    NewIdN(Cardinality({FirstIdx(c, j) : j \in {x \in Range(EntSeq(c)) :
                                                  FirstIdx(c, x) <= FirstIdx(c, id)}}))

\* copy.deepcopy(self): the collection (files and order attribute) over the copies
deepcopy(c) ==
    [c EXCEPT !.files = [i \in DOMAIN c.files |->
                            [key |-> c.files[i].key, ent |-> CopyOf(c, c.files[i].ent)]]]

\* the heap once the copies of c's WinFiles exist
CopyHeap(c) ==
    [i \in Ids |->
        IF \E x \in Range(EntSeq(c)) : CopyOf(c, x) = i
        THEN ents[CHOOSE x \in Range(EntSeq(c)) : CopyOf(c, x) = i]
        ELSE ents[i]]

\* for winfile in ws: files.setdefault(winfile.abspath, winfile)
RECURSIVE SetDefaultAll(_, _)
SetDefaultAll(files, ws) ==
    IF ws = <<>> THEN files
    ELSE LET w == Head(ws)
             k == ents[w].abspath
         IN  SetDefaultAll(
                 IF \E i \in DOMAIN files : files[i].key = k THEN files
                 ELSE Append(files, [key |-> k, ent |-> w]),
                 Tail(ws))

\* for abspath in ps: try: del files[abspath] except: pass
RECURSIVE DelAll(_, _)
DelAll(files, ps) ==
    IF ps = <<>> THEN files
    ELSE DelAll(SelectSeq(files, LAMBDA x : x.key # Head(ps)), Tail(ps))

\* FileCollection.__add__: the returned collection
Plus(a, b) == [deepcopy(a) EXCEPT !.files = SetDefaultAll(@, iterfiles(b))]

\* FileCollection.__sub__: the returned collection
Minus(a, b) == [deepcopy(a) EXCEPT !.files = DelAll(@, iterpaths(b))]

\* FileCollection.sum: the returned collection
Sum(list) ==
    [EmptyFC EXCEPT !.files =
        SetDefaultAll(SetDefaultAll(<<>>, iterfiles(list[1])), iterfiles(list[2]))]

Return(op, l, r, out, heap) ==
    /\ fc' = [fc EXCEPT !["R"] = out]
    /\ ents' = Collect(heap, [fc EXCEPT !["R"] = out])
    /\ last' = Said(op, l, r, 0, FALSE)
    /\ steps' = steps + 1
    /\ UNCHANGED <<disk, init_mode, initialize>>

\* R = l + r
__add__(l, r) ==
    /\ steps < MaxSteps
    /\ IF r = "other" THEN Raise("__add__", l, "other", 0, "TypeError")
       ELSE Return("__add__", l, r, Plus(fc[l], fc[r]), CopyHeap(fc[l]))

\* R = l - r
__sub__(l, r) ==
    /\ steps < MaxSteps
    /\ IF r = "other" THEN Raise("__sub__", l, "other", 0, "TypeError")
       ELSE Return("__sub__", l, r, Minus(fc[l], fc[r]), CopyHeap(fc[l]))

\* R = FileCollection.sum([l, r])
sum(l, r) ==
    /\ steps < MaxSteps
    /\ IF r = "other" THEN Raise("sum", l, "other", 0, "TypeError")
       ELSE Return("sum", l, r, Sum(<<fc[l], fc[r]>>), ents)

(************************ tree factories and tiers ************************)
\* FileCollection.yield_all_file_path for a directory: os.walk, top down
RECURSIVE WalkFrom(_)
WalkFrom(p) ==
    IF p > NPaths THEN <<>>
    ELSE (IF isfile(p) THEN <<p>> ELSE <<>>) \o WalkFrom(p + 1)

yield_all_file_path(d) == WalkFrom(d)

\* the paths the walks of the roots yield, root after root
RECURSIVE WalkAll(_)
WalkAll(roots) ==
    IF roots = <<>> THEN <<>>
    ELSE yield_all_file_path(Head(roots)) \o WalkAll(Tail(roots))

\* fc.files.setdefault(winfile.abspath, winfile) over the paths kept: first seen wins
RECURSIVE FirstSeen(_, _)
FirstSeen(seen, ps) ==
    IF ps = <<>> THEN seen
    ELSE FirstSeen(IF Head(ps) \in Range(seen) THEN seen ELSE Append(seen, Head(ps)),
                   Tail(ps))

\* the root lists and digests callers pass
RootLists ==
    {<<d>> : d \in Dirs} \cup {r \in {<<d, e>> : d \in Dirs, e \in Dirs} : r[2] < r[1]}

Md5Values == {0} \cup {100 + c : c \in Contents}

\* the criterion functions handed to from_path_by_criterion, by name and bound
\* value: from_path_by_md5's filter is `winfile.md5 == md5_value`
Criterion(crit, winfile) ==
    CASE crit.by = "md5" -> winfile.md5 = crit.v
      [] OTHER -> FALSE

\* FileCollection.from_path_by_criterion(roots, criterion, keepboth=False) with the
\* WinFiles built by initializer f: the kept paths, in first-seen order
from_path_by_criterion(roots, f, crit) ==
    FirstSeen(<<>>, SelectSeq(WalkAll(roots), LAMBDA p : Criterion(crit, WinFileBy(f, p))))

\* the mode read only after use_slow_init() has switched the tier
SavedModeAfterSwitch == Level("level3_initialize")

\* `init_mode = WinFile.init_mode`, read before the tier is switched
SavedMode == init_mode

\* FileCollection.from_path_by_md5
from_path_by_md5(roots, md5_value) ==
    /\ steps < MaxSteps
    /\ IF \E i \in DOMAIN roots : ~isdir(roots[i])
       THEN \* use_slow_init() has run; the walk raises before the mode is set back
            /\ init_mode' = 3
            /\ initialize' = "level3_initialize"
            /\ last' = [Said("from_path_by_md5", "R", "", 0, FALSE)
                            EXCEPT !.raised = "EnvironmentError"]
            /\ steps' = steps + 1
            /\ UNCHANGED <<disk, ents, fc>>
       ELSE LET kept == from_path_by_criterion(roots, "level3_initialize",
                                               [by |-> "md5", v |-> md5_value])
                out == [EmptyFC EXCEPT !.files =
                           [i \in DOMAIN kept |-> [key |-> kept[i], ent |-> NewIdN(i)]]]
                heap == [i \in Ids |->
                           IF \E k \in DOMAIN kept : NewIdN(k) = i
                           THEN level3_initialize(kept[CHOOSE k \in DOMAIN kept : NewIdN(k) = i])
                           ELSE ents[i]]
            IN  /\ fc' = [fc EXCEPT !["R"] = out]
                /\ ents' = Collect(heap, [fc EXCEPT !["R"] = out])
                /\ init_mode' = SavedMode
                /\ initialize' = ModeName(SavedMode)
                /\ last' = Said("from_path_by_md5", "R", "", 0, FALSE)
                /\ steps' = steps + 1
                /\ UNCHANGED disk

\* backup.backup_dir (default ignore rules): the collection it builds stays local
backup_dir(root_dir) ==
    /\ steps < MaxSteps
    /\ IF ~isdir(root_dir)
       THEN \* use_regular_init() has run; from_path_except raises
            /\ init_mode' = 2
            /\ initialize' = "level2_initialize"
            /\ last' = [Said("backup_dir", "", "", 0, FALSE)
                            EXCEPT !.raised = "EnvironmentError"]
       ELSE /\ init_mode' = SavedMode
            /\ initialize' = ModeName(SavedMode)
            /\ last' = Said("backup_dir", "", "", 0, FALSE)
    /\ steps' = steps + 1
    /\ UNCHANGED <<disk, ents, fc>>

\* WinFile.use_fast_init
use_fast_init ==
    /\ steps < MaxSteps
    /\ init_mode' = 1
    /\ initialize' = "level1_initialize"
    /\ last' = Said("use_fast_init", "", "", 0, FALSE)
    /\ steps' = steps + 1
    /\ UNCHANGED <<disk, ents, fc>>

\* WinFile.use_regular_init
use_regular_init ==
    /\ steps < MaxSteps
    /\ init_mode' = 2
    /\ initialize' = "level2_initialize"
    /\ last' = Said("use_regular_init", "", "", 0, FALSE)
    /\ steps' = steps + 1
    /\ UNCHANGED <<disk, ents, fc>>

\* WinFile.use_slow_init
use_slow_init ==
    /\ steps < MaxSteps
    /\ init_mode' = 3
    /\ initialize' = "level3_initialize"
    /\ last' = Said("use_slow_init", "", "", 0, FALSE)
    /\ steps' = steps + 1
    /\ UNCHANGED <<disk, ents, fc>>

(***************************** specification ******************************)
Init ==
    /\ disk \in InitDisks
    /\ init_mode = 2
    /\ initialize = "initialize"
    /\ ents = [i \in Ids |-> FreeEnt]
    /\ fc = [n \in FCNames |-> EmptyFC]
    /\ last = Said("init", "", "", 0, FALSE)
    /\ steps = 0

Next ==
    \/ \E c \in {"A", "B"}, arg \in Args : add(c, arg)
    \/ \E c \in {"A", "B"}, arg \in Args : remove(c, arg)
    \/ \E c \in {"A", "B"}, a \in AttrNames, r \in BOOLEAN : sort_by(c, a, r)
    \/ \E x \in 0..3 : set_initialize_mode(x)
    \/ \E l \in {"A", "R"}, r \in {"A", "B", "other"} : __add__(l, r)
    \/ \E l \in {"A", "R"}, r \in {"A", "B", "other"} : __sub__(l, r)
    \/ \E l \in {"A", "R"}, r \in {"A", "B", "other"} : sum(l, r)

Spec == Init /\ [][Next]_vars

\* the tier setters and the calls that switch the tier for their duration
NextTier ==
    \/ use_fast_init
    \/ use_regular_init
    \/ use_slow_init
    \/ \E x \in 0..3 : set_initialize_mode(x)
    \/ \E roots \in RootLists, m \in Md5Values : from_path_by_md5(roots, m)
    \/ \E d \in Dirs : backup_dir(d)
    \/ \E arg \in Args : add("A", arg)

SpecTier == Init /\ [][NextTier]_vars

(***************************** paths spelled out *****************************)
(* SpecFile and SpecTree spell a path out as the sequence of its characters, *)
(* so that os.path.split / splitext / join / relpath and str.lower compute   *)
(* on it.  There `disk` maps each path that is a regular file to its bytes,  *)
(* and ents[1] is the WinFile object the caller holds.                       *)
(*****************************************************************************)
Uppers ==
    <<"A", "B", "C", "D", "E", "F", "G", "H", "I", "J", "K", "L", "M",
      "N", "O", "P", "Q", "R", "S", "T", "U", "V", "W", "X", "Y", "Z">>
Lowers ==
    <<"a", "b", "c", "d", "e", "f", "g", "h", "i", "j", "k", "l", "m",
      "n", "o", "p", "q", "r", "s", "t", "u", "v", "w", "x", "y", "z">>

lower_char(ch) ==
    IF \E i \in DOMAIN Uppers : Uppers[i] = ch
    THEN Lowers[CHOOSE i \in DOMAIN Uppers : Uppers[i] = ch]
    ELSE ch

\* str.lower
lower(s) == [i \in DOMAIN s |-> lower_char(s[i])]

\* s[a:b] for 0 <= a <= b <= len(s)
Slice(s, a, b) == [i \in 1..(b - a) |-> s[a + i]]

\* s.rfind(ch) + 1: the position of the last ch, 0 when there is none
rfind(s, ch) ==
    IF \E i \in DOMAIN s : s[i] = ch
    THEN CHOOSE i \in DOMAIN s : s[i] = ch /\ \A j \in DOMAIN s : s[j] = ch => j <= i
    ELSE 0

\* str.startswith
startswith(s, prefix) ==
    Len(prefix) <= Len(s) /\ Slice(s, 0, Len(prefix)) = prefix

\* `pattern in s`
contains(s, pattern) ==
    \E a \in 0..Len(s) : a + Len(pattern) <= Len(s)
                           /\ Slice(s, a, a + Len(pattern)) = pattern

\* head.rstrip("/")
RECURSIVE rstrip_sep(_)
rstrip_sep(s) ==
    IF s # <<>> /\ s[Len(s)] = "/" THEN rstrip_sep(Slice(s, 0, Len(s) - 1)) ELSE s

\* os.path.split (posixpath): cut after the last "/", the head without its
\* trailing slashes unless it is all slashes
split(p) ==
    LET i == rfind(p, "/")
        head == Slice(p, 0, i)
    IN  <<IF head # <<>> /\ \E k \in DOMAIN head : head[k] # "/"
          THEN rstrip_sep(head) ELSE head,
          Slice(p, i, Len(p))>>

\* os.path.splitext (genericpath._splitext): cut at the last dot if a character
\* other than "." stands before it in the last component
splitext(p) ==
    LET sepIndex == rfind(p, "/")
        dotIndex == rfind(p, ".")
    IN  IF dotIndex > sepIndex
           /\ \E k \in (sepIndex + 1)..(dotIndex - 1) : p[k] # "."
        THEN <<Slice(p, 0, dotIndex - 1), Slice(p, dotIndex - 1, Len(p))>>
        ELSE <<p, <<>>>>

\* os.path.join (posixpath) of two components
join(a, b) ==
    IF startswith(b, <<"/">>) THEN b
    ELSE IF a = <<>> \/ a[Len(a)] = "/" THEN a \o b
    ELSE a \o <<"/">> \o b

\* os.getcwd()
Cwd == <<"/", "d">>

\* os.path.abspath of a path without "." or ".." components
os_path_abspath(s) == IF startswith(s, <<"/">>) THEN rstrip_sep(s) ELSE join(Cwd, s)

\* the directories of the file system (no call of the model creates or removes one)
Folders ==
    {<<"/", "d">>, <<"/", "d", "/", "s">>, <<"/", "d", "/", "s", "/", "u">>, <<"/", "e">>}

\* os.path.isdir / isfile / exists on a spelled-out path
os_path_isdir(s) == os_path_abspath(s) \in Folders

os_path_isfile(s) == os_path_abspath(s) \in DOMAIN disk

os_path_exists(s) == os_path_isfile(s) \/ os_path_isdir(s)

\* os.path.relpath(path, start) for a path under the directory start
relpath(path, start) ==
    LET a == os_path_abspath(path)
        b == os_path_abspath(start)
    IN  Slice(a, Len(b) + 1, Len(a))

\* path lies in the tree of directory d
Under(path, d) == startswith(path, os_path_abspath(d) \o <<"/">>)

(************************** WinFile, paths spelled out **************************)
\* the bytes of a file are identified with their number, a natural written in
\* base 1024 with the least significant digit first (<<>> is 0, the empty file)
os_path_getsize(p) == disk[os_path_abspath(p)]

\* meth.md5file: the digest of the whole content, a value other than the content
md5file_of(p) == <<"md5">> \o disk[os_path_abspath(p)]

\* the first three statements of every initializer: dirname, basename, fname, ext
\* from abspath, the extension lower-cased
name_fields(p) ==
    LET sp == split(p)
        se == splitext(sp[2])
    IN  [abspath |-> p, dirname |-> sp[1], basename |-> sp[2],
         fname |-> se[1], ext |-> lower(se[2])]

\* WinFile(s) for a path that is a regular file, by the initializer f; a slot the
\* initializer does not assign is no field of the record
WinFileAt(f, s) ==
    LET p == os_path_abspath(s)
    IN  CASE Level(f) = 1 -> name_fields(p)
          [] Level(f) = 2 -> name_fields(p) @@ [size_on_disk |-> os_path_getsize(p)]
          [] OTHER -> name_fields(p) @@ [size_on_disk |-> os_path_getsize(p),
                                          md5 |-> md5file_of(p)]

\* no WinFile has been constructed yet
NoWinFile == [abspath |-> <<>>]

Built(w) == w # NoWinFile

\* a call on the WinFile: its name, its arguments, the exception it raised
Called(op, args, exc) == [op |-> op, args |-> args, raised |-> exc]

\* w = WinFile(s)
WinFile__init__(s) ==
    /\ steps < MaxSteps
    /\ IF os_path_isfile(s)
       THEN /\ ents' = [ents EXCEPT ![1] = WinFileAt(initialize, s)]
            /\ last' = Called("WinFile", [abspath |-> s], "")
       ELSE /\ last' = Called("WinFile", [abspath |-> s], "EnvironmentError")
            /\ UNCHANGED ents
    /\ steps' = steps + 1
    /\ UNCHANGED <<disk, init_mode, initialize, fc>>

\* WinFile.update; None and "" are both falsy and both written <<>>
update(new_dirname, new_fname, new_ext) ==
    /\ steps < MaxSteps
    /\ Built(ents[1])
    /\ LET w == ents[1]
           dirname == IF new_dirname # <<>> THEN new_dirname ELSE w.dirname
           fname == IF new_fname # <<>> THEN new_fname ELSE w.fname
           ext == IF new_ext # <<>> THEN new_ext ELSE w.ext
           basename == fname \o ext
       IN  ents' = [ents EXCEPT ![1] =
                      [w EXCEPT !.dirname = dirname, !.fname = fname, !.ext = ext,
                                !.basename = basename,
                                !.abspath = join(dirname, basename)]]
    /\ last' = Called("update", [new_dirname |-> new_dirname, new_fname |-> new_fname,
                                 new_ext |-> new_ext], "")
    /\ steps' = steps + 1
    /\ UNCHANGED <<disk, init_mode, initialize, fc>>

\* os.rename (POSIX): what it raises, and the file system after it
os_rename(src, dst) ==
    LET s == os_path_abspath(src)
        d == os_path_abspath(dst)
    IN  IF s \notin DOMAIN disk \/ split(d)[1] \notin Folders \/ d \in Folders
        THEN [raised |-> "OSError", disk |-> disk]
        ELSE [raised |-> "",
              disk |-> [p \in (DOMAIN disk \ {s}) \cup {d} |->
                           IF p = d THEN disk[s] ELSE disk[p]]]

\* a rename that assigns the fields before it calls os.rename
FieldsAssignedFirst(w, new, renamed) == new

\* the fields of the WinFile after rename: assigned only once os.rename returned
FieldsAfterRename(w, new, renamed) == IF renamed THEN new ELSE w

\* WinFile.rename
rename(new_dirname, new_fname, new_ext) ==
    /\ steps < MaxSteps
    /\ Built(ents[1])
    /\ LET w == ents[1]
           args == [new_dirname |-> new_dirname, new_fname |-> new_fname,
                    new_ext |-> new_ext]
           dirname == IF new_dirname = <<>> THEN w.dirname
                      ELSE os_path_abspath(new_dirname)
           fname == IF new_fname = <<>> THEN w.fname ELSE new_fname
           ext == IF new_ext # <<>> THEN new_ext ELSE w.ext
           basename == fname \o ext
           new == [w EXCEPT !.abspath = join(dirname, basename), !.dirname = dirname,
                            !.basename = basename, !.fname = fname, !.ext = ext]
           done == os_rename(w.abspath, new.abspath)
       IN  IF new_ext # <<>> /\ ~startswith(new_ext, <<".">>)
           THEN /\ last' = Called("rename", args, "ValueError")
                /\ UNCHANGED <<disk, ents>>
           ELSE /\ disk' = done.disk
                /\ ents' = [ents EXCEPT ![1] = FieldsAfterRename(w, new, done.raised = "")]
                /\ last' = Called("rename", args, done.raised)
    /\ steps' = steps + 1
    /\ UNCHANGED <<init_mode, initialize, fc>>

\* WinFile.copy_to: f_in is opened first, then f_out is opened "wb" (created or
\* truncated), then f_in is read and written to f_out
copy_to(dst, overwrite) ==
    /\ steps < MaxSteps
    /\ Built(ents[1])
    /\ LET w == ents[1]
           args == [dst |-> dst, overwrite |-> overwrite]
           s == os_path_abspath(w.abspath)
           d == os_path_abspath(dst)
           opened == [p \in DOMAIN disk \cup {d} |-> IF p = d THEN <<>> ELSE disk[p]]
       IN  IF os_path_exists(dst) /\ ~overwrite
           THEN /\ last' = Called("copy_to", args, "FileExistsError")
                /\ UNCHANGED disk
           ELSE IF s \notin DOMAIN disk \/ split(d)[1] \notin Folders \/ d \in Folders
           THEN /\ last' = Called("copy_to", args, "IOError")
                /\ UNCHANGED disk
           ELSE /\ disk' = [opened EXCEPT ![d] = opened[s]]
                /\ last' = Called("copy_to", args, "")
    /\ steps' = steps + 1
    /\ UNCHANGED <<init_mode, initialize, ents, fc>>

\* the file systems a run of SpecFile starts from
P_d_a_T == <<"/", "d", "/", "a", ".", "T">>
P_d_b_t == <<"/", "d", "/", "b", ".", "t">>
P_d_a == <<"/", "d", "/", "a">>
P_e_a_t == <<"/", "e", "/", "a", ".", "t">>

InitFiles ==
    {(P_d_a_T :> <<1>>) @@ (P_d_b_t :> <<2>>),
     (P_d_a :> <<2>>) @@ (P_e_a_t :> <<>>),
     (P_d_a_T :> <<2>>) @@ (P_e_a_t :> <<1>>)}

\* what callers pass: paths (absolute, relative to the working directory, of a
\* directory, of nothing), directory names, file names and extensions
PathArgs ==
    {P_d_a_T, P_d_b_t, P_d_a, P_e_a_t, <<"a", ".", "T">>, <<"/", "d">>,
     <<"/", "x", "/", "a">>}
DirnameArgs == {<<>>, <<"/", "e">>, <<"/", "x">>}
FnameArgs == {<<>>, <<"b">>}
ExtArgs == {<<>>, <<".", "T">>, <<".", "t">>, <<"t">>}

InitFile ==
    /\ disk \in InitFiles
    /\ init_mode = 2
    /\ initialize = "initialize"
    /\ ents = [i \in Ids |-> NoWinFile]
    /\ fc = [n \in FCNames |-> EmptyFC]
    /\ last = Called("init", [abspath |-> <<>>], "")
    /\ steps = 0

NextFile ==
    \/ \E s \in PathArgs : WinFile__init__(s)
    \/ \E d \in DirnameArgs, f \in FnameArgs, e \in ExtArgs : update(d, f, e)
    \/ \E d \in DirnameArgs, f \in FnameArgs, e \in ExtArgs : rename(d, f, e)
    \/ \E dst \in PathArgs, o \in BOOLEAN : copy_to(dst, o)
    \/ \E x \in 1..3 : set_initialize_mode(x)

SpecFile == InitFile /\ [][NextFile]_vars

(********************* tree factories, paths spelled out *********************)
(* In SpecTree an entry of a collection holds the slots of its WinFile       *)
(* themselves.  A factory is a static method that reads only the disk and    *)
(* the bound initializer: a run applies one factory (steps = 0) to the tree  *)
(* and the tier it starts from.                                              *)
(*****************************************************************************)
\* naturals in base 1024, least significant digit first, no leading zero digit
BigLess(a, b) ==
    \/ Len(a) < Len(b)
    \/ /\ Len(a) = Len(b)
       /\ \E i \in DOMAIN a : a[i] < b[i] /\ \A j \in DOMAIN a : j > i => a[j] = b[j]

\* a <= b
BigLeq(a, b) == a = b \/ BigLess(a, b)

\* n << bits, for a number of bits that is a multiple of ten
ShiftLeft(n, bits) == IF n = <<>> THEN <<>> ELSE [i \in 1..(bits \div 10) |-> 0] \o n

\* the default of from_path_by_size's max_size: 1 << 40
DefaultMaxSize == ShiftLeft(<<1>>, 40)

\* the files a tree can hold, in the order os.walk lists them (top down)
T_d_a_LOG == <<"/", "d", "/", "a", ".", "L", "O", "G">>
T_d_sa_t == <<"/", "d", "/", "s", "a", ".", "t">>
T_d_s_b_jpg == <<"/", "d", "/", "s", "/", "b", ".", "j", "p", "g">>
T_d_s_c_PNG == <<"/", "d", "/", "s", "/", "c", ".", "P", "N", "G">>
T_e_a_log == <<"/", "e", "/", "a", ".", "l", "o", "g">>

Listing == <<T_d_a_LOG, T_d_sa_t, T_d_s_b_jpg, T_d_s_c_PNG, T_e_a_log>>

\* the trees a run of SpecTree starts from; sizes around 2^40 among them
InitTrees ==
    {(T_d_a_LOG :> <<5>>) @@ (T_d_s_b_jpg :> <<0, 0, 0, 0, 1>>)
        @@ (T_d_s_c_PNG :> <<1023, 1023, 1023, 1023>>) @@ (T_e_a_log :> <<>>),
     (T_d_sa_t :> <<1, 0, 0, 0, 1>>) @@ (T_d_s_b_jpg :> <<5>>) @@ (T_e_a_log :> <<7>>),
     (T_d_a_LOG :> <<7>>) @@ (T_d_sa_t :> <<>>) @@ (T_d_s_c_PNG :> <<5>>)}

\* FileCollection.yield_all_file_path for an existing directory
walk_files(dir_abspath) ==
    SelectSeq(Listing, LAMBDA p : p \in DOMAIN disk /\ Under(p, dir_abspath))

\* for dir_path in path_or_path_list: for winfile in yield_all_winfile(dir_path):
\* every WinFile the walks construct, with the root it was found under
RECURSIVE Discovered(_, _)
Discovered(roots, f) ==
    IF roots = <<>> THEN <<>>
    ELSE LET found == walk_files(Head(roots))
         IN  [i \in DOMAIN found |->
                 [dir_path |-> Head(roots), winfile |-> WinFileAt(f, found[i])]]
                 \o Discovered(Tail(roots), f)

\* every discovery kept is appended, whether or not its path is there already
CollectedAll(files, ds) ==
    files \o [i \in DOMAIN ds |-> [key |-> ds[i].winfile.abspath, ent |-> ds[i].winfile]]

\* fc.files.setdefault(winfile.abspath, winfile) over the discoveries kept
RECURSIVE Collected(_, _)
Collected(files, ds) ==
    IF ds = <<>> THEN files
    ELSE LET w == Head(ds).winfile
         IN  Collected(IF \E i \in DOMAIN files : files[i].key = w.abspath THEN files
                       ELSE Append(files, [key |-> w.abspath, ent |-> w]),
                       Tail(ds))

\* relpath compared as the walk spells it, without lower()
RelpathAsSpelled(path, dir_path) == relpath(path, dir_path)

\* `relpath = os.path.relpath(winfile.abspath, dir_path).lower()`
LoweredRelpath(path, dir_path) == lower(relpath(path, dir_path))

\* from_path_except's filter(winfile) for the root dir_path; the three rule
\* lists have been lower-cased
except_filter(winfile, dir_path, ignore, ignore_ext, ignore_pattern) ==
    LET rel == LoweredRelpath(winfile.abspath, dir_path)
    IN  /\ ~\E i \in DOMAIN ignore : startswith(rel, lower(ignore[i]))
        /\ ~\E i \in DOMAIN ignore_ext : winfile.ext = lower(ignore_ext[i])
        /\ ~\E i \in DOMAIN ignore_pattern : contains(rel, lower(ignore_pattern[i]))

\* the criterion functions by name and bound values: from_path_by_size's and
\* from_path_by_ext's filter(winfile); a tuple is no list, set or dict, so it is
\* compared with == and equals no extension
filter(crit, winfile) ==
    CASE crit.by = "size" ->
            /\ BigLeq(crit.min_size, winfile.size_on_disk)
            /\ BigLeq(winfile.size_on_disk, crit.max_size)
      [] crit.by = "ext" ->
            IF crit.kind \in {"list", "set", "dict"} THEN winfile.ext \in crit.ext
            ELSE IF crit.kind = "str" THEN winfile.ext = crit.ext
            ELSE FALSE

\* what the call raises: a root that is no directory (the walk raises), or a
\* slot the bound initializer did not assign (the filter raises)
Raises(roots, ds, slot) ==
    IF \E i \in DOMAIN roots : ~os_path_isdir(roots[i]) THEN "EnvironmentError"
    ELSE IF \E i \in DOMAIN ds : slot \notin DOMAIN ds[i].winfile
    THEN "AttributeError"
    ELSE ""

\* the walks of the roots that are directories
Walked(roots) ==
    Discovered(SelectSeq(roots, LAMBDA r : os_path_isdir(r)), initialize)

\* a factory returns: the run keeps the collections the call returned
Returned(op, args, exc, yes, no) ==
    /\ last' = Called(op, args, exc)
    /\ fc' = [n \in FCNames |-> IF exc # "" THEN EmptyFC
                                ELSE IF n = "R" THEN [EmptyFC EXCEPT !.files = yes]
                                ELSE IF n = "B" THEN [EmptyFC EXCEPT !.files = no]
                                ELSE EmptyFC]
    /\ steps' = steps + 1
    /\ UNCHANGED <<disk, init_mode, initialize, ents>>

\* R = FileCollection.from_path_except(roots, ignore, ignore_ext, ignore_pattern)
from_path_except(roots, ignore, ignore_ext, ignore_pattern) ==
    /\ steps = 0
    /\ LET ds == Walked(roots)
           exc == Raises(roots, ds, "ext")
           kept == SelectSeq(ds, LAMBDA d : except_filter(d.winfile, d.dir_path, ignore,
                                                          ignore_ext, ignore_pattern))
       IN  Returned("from_path_except",
                    [roots |-> roots, ignore |-> ignore, ignore_ext |-> ignore_ext,
                     ignore_pattern |-> ignore_pattern],
                    exc, IF exc = "" THEN Collected(<<>>, kept) ELSE <<>>, <<>>)

\* FileCollection.from_path_by_criterion over the discoveries ds: fc_yes (the only
\* collection without keepboth) and fc_no
by_criterion(ds, crit, keepboth) ==
    [yes |-> Collected(<<>>, SelectSeq(ds, LAMBDA d : filter(crit, d.winfile))),
     no |-> IF keepboth
            THEN Collected(<<>>, SelectSeq(ds, LAMBDA d : ~filter(crit, d.winfile)))
            ELSE <<>>]

\* R, B = FileCollection.from_path_by_criterion(roots, criterion, keepboth=True)
from_path_by_criterion_keepboth(roots, crit) ==
    /\ steps = 0
    /\ LET ds == Walked(roots)
           exc == Raises(roots, ds, IF crit.by = "size" THEN "size_on_disk" ELSE "ext")
           both == IF exc = "" THEN by_criterion(ds, crit, TRUE)
                   ELSE [yes |-> <<>>, no |-> <<>>]
       IN  Returned("from_path_by_criterion", [roots |-> roots, criterion |-> crit],
                    exc, both.yes, both.no)

\* R = FileCollection.from_path_by_ext(roots, ext): ext is a str, or a list, set,
\* dict or tuple of them
from_path_by_ext(roots, ext) ==
    /\ steps = 0
    /\ LET ds == Walked(roots)
           crit == [by |-> "ext", kind |-> ext.kind, ext |-> ext.v]
           exc == Raises(roots, ds, "ext")
       IN  Returned("from_path_by_ext", [roots |-> roots, ext |-> ext], exc,
                    IF exc = "" THEN by_criterion(ds, crit, FALSE).yes ELSE <<>>, <<>>)

\* R = FileCollection.from_path_by_size(roots, min_size, max_size); an argument
\* left out takes its default (min_size=0 is <<>>)
from_path_by_size(roots, min_size, max_size) ==
    /\ steps = 0
    /\ LET ds == Walked(roots)
           crit == [by |-> "size",
                    min_size |-> IF min_size.given THEN min_size.v ELSE <<>>,
                    max_size |-> IF max_size.given THEN max_size.v ELSE DefaultMaxSize]
           exc == Raises(roots, ds, "size_on_disk")
       IN  Returned("from_path_by_size",
                    [roots |-> roots, min_size |-> min_size, max_size |-> max_size],
                    exc, IF exc = "" THEN by_criterion(ds, crit, FALSE).yes ELSE <<>>, <<>>)

\* what callers pass: root lists (one root, nested roots in both orders, disjoint
\* roots, a relative root, a root that is no directory), rule lists, extensions
\* and size bounds
Dir_d == <<"/", "d">>
Dir_d_s == <<"/", "d", "/", "s">>
Dir_e == <<"/", "e">>

RootArgs ==
    {<<Dir_d>>, <<Dir_d_s>>, <<Dir_d, Dir_d_s>>, <<Dir_d_s, Dir_d>>, <<Dir_e, Dir_d>>,
     <<<<"s">>>>, <<<<"/", "x">>>>}

Ext_jpg == <<".", "j", "p", "g">>
Ext_png == <<".", "p", "n", "g">>
Ext_log == <<".", "l", "o", "g">>

IgnoreArgs == {<<>>, <<<<"s">>>>, <<<<"S", "/">>>>}
IgnoreExtArgs == {<<>>, <<Ext_log>>, <<<<".", "L", "O", "G">>, Ext_png>>}
IgnorePatternArgs == {<<>>, <<<<"A", ".">>>>, <<<<"L", "o", "g">>>>}

ExtSelections ==
    {[kind |-> "str", v |-> Ext_jpg], [kind |-> "str", v |-> Ext_log],
     [kind |-> "list", v |-> {Ext_jpg, Ext_png}], [kind |-> "set", v |-> {Ext_log}],
     [kind |-> "tuple", v |-> {Ext_jpg, Ext_png}]}

MinSizeArgs == {[given |-> FALSE], [given |-> TRUE, v |-> <<6>>]}
MaxSizeArgs ==
    {[given |-> FALSE], [given |-> TRUE, v |-> <<6>>],
     [given |-> TRUE, v |-> <<1023, 1023, 1023, 1023>>]}

Criteria ==
    {[by |-> "ext", kind |-> "list", ext |-> {Ext_log, Ext_png}],
     [by |-> "ext", kind |-> "str", ext |-> Ext_jpg],
     [by |-> "size", min_size |-> <<6>>, max_size |-> DefaultMaxSize]}

\* the initializers WinFile.initialize can be bound to when a factory is called
Tiers == {"initialize", "level1_initialize", "level2_initialize", "level3_initialize"}

InitTree ==
    /\ disk \in InitTrees
    /\ initialize \in Tiers
    /\ init_mode = Level(initialize)
    /\ ents = [i \in Ids |-> NoWinFile]
    /\ fc = [n \in FCNames |-> EmptyFC]
    /\ last = Called("init", [roots |-> <<>>], "")
    /\ steps = 0

NextTree ==
    \/ \E roots \in RootArgs, i \in IgnoreArgs, e \in IgnoreExtArgs,
          p \in IgnorePatternArgs : from_path_except(roots, i, e, p)
    \/ \E roots \in RootArgs, crit \in Criteria :
          from_path_by_criterion_keepboth(roots, crit)
    \/ \E roots \in RootArgs, ext \in ExtSelections : from_path_by_ext(roots, ext)
    \/ \E roots \in RootArgs, lo \in MinSizeArgs, hi \in MaxSizeArgs :
          from_path_by_size(roots, lo, hi)

SpecTree == InitTree /\ [][NextTree]_vars

(***************************** repr_data_size ******************************)
\* the sizes handed to repr_data_size: naturals in base 1024, least significant
\* digit first, of at most MaxDigits digits
Digits == {0, 1, 5, 128, 200, 512, 1023}

\* 100, 100000, 100000000 and 100000000000 bytes, the sizes of the unit test
Examples == {<<100>>, <<672, 97>>, <<256, 376, 95>>, <<0, 442, 135, 93>>}

Sizes ==
    {<<>>} \cup Examples
           \cup UNION {{n \in [1..k -> Digits] : n[k] # 0} : k \in 1..MaxDigits}

magnitude_of_data == <<"B", "KB", "MB", "GB", "TB", "PB", "EB", "ZB", "YB">>

\* the machine integer a size below 1024 is
Small(n) == IF n = <<>> THEN 0 ELSE n[1]

\* while 1: index += 1; size_in_bytes, mod = divmod(size_in_bytes, 1024);
\* if size_in_bytes < 1024: break -- mod is the remainder of the last division
RECURSIVE Divide(_, _, _)
Divide(size_in_bytes, index, mod) ==
    IF Len(size_in_bytes) <= 1
    THEN [size_in_bytes |-> Small(size_in_bytes), mod |-> mod, index |-> index]
    ELSE Divide(Tail(size_in_bytes), index + 1, Head(size_in_bytes))

\* "{0:.<precision>f}".format(x) for x = num / 1024: the decimal of that many
\* places nearest to x, a tie going to the even one; the result times 10^precision
Format(num, precision) ==
    LET q == (num * 10 ^ precision) \div 1024
        r == (num * 10 ^ precision) % 1024
    IN  IF r > 512 \/ (r = 512 /\ q % 2 = 1) THEN q + 1 ELSE q

\* meth.repr_data_size: the number shown (times 10^places) and the unit
repr_data_size(size_in_bytes, precision) ==
    IF Len(size_in_bytes) <= 1
    THEN [raised |-> "", scaled |-> Small(size_in_bytes), places |-> 0, unit |-> "B"]
    ELSE LET d == Divide(size_in_bytes, 0, 0)
         IN  IF d.index + 1 > Len(magnitude_of_data)
             THEN [raised |-> "IndexError", scaled |-> 0, places |-> 0, unit |-> ""]
             ELSE [raised |-> "",
                   scaled |-> Format(d.size_in_bytes * 1024 + d.mod, precision),
                   places |-> precision,
                   unit |-> magnitude_of_data[d.index + 1]]

\* a call of repr_data_size on a size and a precision; a run makes one call
call_repr_data_size(size_in_bytes, precision) ==
    /\ steps = 0
    /\ last' = [op |-> "repr_data_size",
                args |-> [size_in_bytes |-> size_in_bytes, precision |-> precision],
                result |-> repr_data_size(size_in_bytes, precision)]
    /\ steps' = steps + 1
    /\ UNCHANGED <<disk, init_mode, initialize, ents, fc>>

InitSize ==
    /\ disk = <<>>
    /\ init_mode = 2
    /\ initialize = "initialize"
    /\ ents = [i \in Ids |-> NoWinFile]
    /\ fc = [n \in FCNames |-> EmptyFC]
    /\ last = [op |-> "init"]
    /\ steps = 0

NextSize ==
    \E n \in Sizes, precision \in 0..MaxPrecision : call_repr_data_size(n, precision)

SpecSize == InitSize /\ [][NextSize]_vars

(********************************* WinDir **********************************)
(* In SpecDir ents[1] is the WinDir object the caller holds; a run constructs *)
(* one WinDir on the tree it starts from.                                     *)
(*****************************************************************************)
\* a + b + carry on naturals in base 1024, least significant digit first
RECURSIVE BigAdd(_, _, _)
BigAdd(a, b, carry) ==
    IF a = <<>> /\ b = <<>> THEN (IF carry = 0 THEN <<>> ELSE <<carry>>)
    ELSE LET x == IF a = <<>> THEN 0 ELSE Head(a)
             y == IF b = <<>> THEN 0 ELSE Head(b)
         IN  <<(x + y + carry) % 1024>>
                \o BigAdd(IF a = <<>> THEN <<>> ELSE Tail(a),
                          IF b = <<>> THEN <<>> ELSE Tail(b), (x + y + carry) \div 1024)

\* the directories the loop over os.walk(top) skips: none
WalkedBelowTop(top) == {f \in Folders : Under(f, top)}

\* the current_dir of every triple os.walk(top) yields: top and each directory
\* in its tree
Walked_dirs(top) == {f \in Folders : f = top \/ Under(f, top)}

\* the folderlist and the fnamelist os.walk yields with current_dir
folderlist(current_dir) == {f \in Folders : split(f)[1] = current_dir}

fnamelist(current_dir) == {p \in DOMAIN disk : split(p)[1] = current_dir}

\* size += os.path.getsize(os.path.join(current_dir, fname)) over the files
RECURSIVE SizeOver(_)
SizeOver(files) ==
    IF files = {} THEN <<>>
    ELSE LET p == CHOOSE q \in files : TRUE
         IN  BigAdd(os_path_getsize(p), SizeOver(files \ {p}), 0)

\* WinDir.get_detail on the directory top: the totals over the whole walk, the
\* current values from the first triple of a second walk
get_detail(top) ==
    LET walked == Walked_dirs(top)
    IN  [size_total |-> SizeOver(UNION {fnamelist(d) : d \in walked}),
         num_folder_total |-> Cardinality(UNION {folderlist(d) : d \in walked}),
         num_file_total |-> Cardinality(UNION {fnamelist(d) : d \in walked}),
         size_current |-> SizeOver(fnamelist(top)),
         num_folder_current |-> Cardinality(folderlist(top)),
         num_file_current |-> Cardinality(fnamelist(top))]

\* d = WinDir(s)
WinDir__init__(s) ==
    /\ steps = 0
    /\ IF os_path_isdir(s)
       THEN /\ ents' = [ents EXCEPT ![1] =
                   [abspath |-> os_path_abspath(s),
                    dirname |-> split(os_path_abspath(s))[1],
                    basename |-> split(os_path_abspath(s))[2]]
                       @@ get_detail(os_path_abspath(s))]
            /\ last' = Called("WinDir", [abspath |-> s], "")
       ELSE /\ last' = Called("WinDir", [abspath |-> s], "ValueError")
            /\ UNCHANGED ents
    /\ steps' = steps + 1
    /\ UNCHANGED <<disk, init_mode, initialize, fc>>

\* the trees a run of SpecDir starts from: any of the files of Listing, each
\* empty, small or of 2^40 - 1 bytes
InitDir ==
    /\ disk \in UNION {[files -> {<<>>, <<5>>, <<1023, 1023, 1023, 1023>>}] :
                          files \in SUBSET {Listing[i] : i \in DOMAIN Listing}}
    /\ init_mode = 2
    /\ initialize = "initialize"
    /\ ents = [i \in Ids |-> NoWinFile]
    /\ fc = [n \in FCNames |-> EmptyFC]
    /\ last = Called("init", [abspath |-> <<>>], "")
    /\ steps = 0

NextDir ==
    \E s \in Folders \cup {<<"s">>, <<"/", "d", "/">>, <<"/", "x">>, T_d_a_LOG} :
        WinDir__init__(s)

SpecDir == InitDir /\ [][NextDir]_vars

(********************** a collection holding the WinFile **********************)
(* In SpecHeld the caller holds w = ents[1], built from a file of the disk,   *)
(* and the collection fc["A"]; an entry of the collection refers to its       *)
(* WinFile object by identity, so a rename of w is seen through the entry.    *)
(*****************************************************************************)
\* FileCollection.__contains__ for a path or a WinFile
Contains(c, item) ==
    (IF item.kind = "str" THEN os_path_abspath(item.v) ELSE ents[item.v].abspath)
        \in Keys(c)

\* A.add(w) for the WinFile the caller holds, or A.add(s) for a path
FileCollection_add(arg) ==
    /\ steps < MaxSteps
    /\ IF arg.kind = "str" /\ ~os_path_isfile(arg.v)
       THEN /\ last' = Called("add", arg, "EnvironmentError")
            /\ UNCHANGED <<ents, fc>>
       ELSE LET held == {fc["A"].files[i].ent : i \in DOMAIN fc["A"].files}
                id == IF arg.kind = "WinFile" THEN 1
                      ELSE CHOOSE i \in Ids \ ({1} \cup held) :
                               \A j \in Ids \ ({1} \cup held) : i <= j
                winfile == IF arg.kind = "WinFile" THEN ents[1]
                           ELSE WinFileAt(initialize, arg.v)
            IN  /\ last' = Called("add", arg, "")
                /\ IF winfile.abspath \in Keys(fc["A"])
                   THEN UNCHANGED <<ents, fc>>
                   ELSE /\ fc' = [fc EXCEPT !["A"].files =
                                     Append(@, [key |-> winfile.abspath, ent |-> id])]
                        /\ ents' = [ents EXCEPT ![id] = winfile]
    /\ steps' = steps + 1
    /\ UNCHANGED <<disk, init_mode, initialize>>

InitHeld ==
    /\ disk \in InitFiles
    /\ init_mode = 2
    /\ initialize = "initialize"
    /\ \E s \in DOMAIN disk :
           /\ ents = [i \in Ids |-> IF i = 1 THEN WinFileAt("initialize", s) ELSE NoWinFile]
           /\ last = Called("WinFile", [abspath |-> s], "")
    /\ fc = [n \in FCNames |-> EmptyFC]
    /\ steps = 0

NextHeld ==
    \/ \E arg \in {[kind |-> "WinFile", v |-> 1]}
                     \cup {[kind |-> "str", v |-> s] : s \in PathArgs} :
          FileCollection_add(arg)
    \/ \E d \in DirnameArgs, f \in FnameArgs, e \in ExtArgs : update(d, f, e)
    \/ \E d \in DirnameArgs, f \in FnameArgs, e \in ExtArgs : rename(d, f, e)

SpecHeld == InitHeld /\ [][NextHeld]_vars

(********************************* claims *********************************)
\* s holds every element of S exactly once and nothing else
OnceEach(s, S) == Range(s) = S /\ Len(s) = Cardinality(S)

Count(s, x) == Cardinality({i \in DOMAIN s : s[i] = x})

\* C1: for the collections A and B, however sorted or mutated before:
\* len(A + B) <= len(A) + len(B); every path of B is in A + B; and (A + B) - B
\* holds exactly the paths of A that are not in B, each once.
C1_UnionDifference ==
    LET a == fc["A"]
        b == fc["B"]
        u == Plus(a, b)
        d == Minus(u, b)
    IN  /\ Len(u.files) <= Len(a.files) + Len(b.files)
        /\ Keys(b) \subseteq Keys(u)
        /\ OnceEach(KeySeq(d), Keys(a) \ Keys(b))

\* the collections a combining call read: its operands that still exist
Inputs ==
    (IF last.fc = "R" THEN {} ELSE {last.fc}) \cup {last.arg}

\* C2: the collection returned by A + B, A - B or FileCollection.sum holds no
\* WinFile object that an input collection holds.
C2_CombinatorsCopy ==
    (last.op \in {"__add__", "__sub__", "sum"} /\ last.raised = "")
        => \A n \in Inputs : Range(EntSeq(fc["R"])) \cap Range(EntSeq(fc[n])) = {}

\* C3: after sort_by and then remove(p) of a path p of the collection, iterating
\* the paths and iterating the entities never yields p (or its entity) and yields
\* every remaining entry exactly once.
C3_RemoveAfterSort ==
    \A n \in {"A", "B"} :
        (last.op = "remove" /\ last.fc = n /\ last.raised = "" /\ ~last.msg
            /\ fc[n].hasorder)
            => /\ Count(iterpaths(fc[n]), last.path) = 0
               /\ OnceEach(iterpaths(fc[n]), Keys(fc[n]))
               /\ OnceEach(iterfiles(fc[n]), Range(EntSeq(fc[n])))

\* C4: after sort_by and then add(q) of a path q new to the collection, iterating
\* the paths and iterating the entities yields q (its entity) exactly once.
C4_AddAfterSort ==
    \A n \in {"A", "B"} :
        (last.op = "add" /\ last.fc = n /\ last.raised = "" /\ ~last.msg
            /\ fc[n].hasorder)
            => /\ Count(iterpaths(fc[n]), last.path) = 1
               /\ Count(iterfiles(fc[n]), Lookup(fc[n], last.path)) = 1

\* C5: from_path_by_md5 and backup_dir leave WinFile.init_mode and the tier of
\* the bound initializer as they were before the call, on every exit path.
C5_TierRestoredOnEveryExit ==
    [][(last'.op \in {"from_path_by_md5", "backup_dir"})
          => (init_mode' = init_mode /\ Level(initialize') = Level(initialize))]_vars

\* C6: a from_path_by_md5 call that returns leaves the initialization tier as it
\* was before the call, whatever that tier was and whatever matched.
C6_TierRestoredOnReturn ==
    [][(last'.op = "from_path_by_md5" /\ last'.raised = "")
          => (init_mode' = init_mode /\ Level(initialize') = Level(initialize))]_vars

\* from_path_by_md5 has returned an empty collection and the tier is the fast one
C6_Witness ==
    /\ last.op = "from_path_by_md5"
    /\ last.raised = ""
    /\ fc["R"].files = <<>>
    /\ init_mode = 1
    /\ initialize = "level1_initialize"

\* C7: remove(x) of a path or WinFile that is not in the collection does not
\* raise and leaves the collection as it was, whether or not the path exists.
C7_RemoveAbsentIsNoOp ==
    [][(last'.op = "remove" /\ last'.arg \in {"str", "WinFile"}
            /\ last'.path \notin Keys(fc[last'.fc]))
          => (last'.raised = "" /\ fc' = fc)]_vars

NoSharedPath(c) ==
    \A i, j \in DOMAIN c.files :
        i # j => /\ c.files[i].key # c.files[j].key
                 /\ ents[c.files[i].ent].abspath # ents[c.files[j].ent].abspath

\* C8: no two entries of a collection share an absolute path, and add() of a path
\* or WinFile whose absolute path is present does not raise and changes neither
\* the collection (its length, its insertion order) nor the stored WinFile.
C8_NoDuplicatePaths ==
    /\ [](\A n \in FCNames : NoSharedPath(fc[n]))
    /\ [][(last'.op = "add" /\ last'.arg \in {"str", "WinFile"}
               /\ last'.path \in Keys(fc[last'.fc]))
             => (last'.raised = "" /\ last'.msg /\ fc' = fc /\ ents' = ents)]_vars

\* add() has just been refused for a path the collection holds
C8_Witness ==
    /\ last.op = "add"
    /\ last.msg
    /\ last.path \in Keys(fc[last.fc])
    /\ \E n \in FCNames : Len(fc[n].files) = NPaths

\* the attribute names sort_by's error message allows (those modelled)
Sortable == {"abspath", "size_on_disk"}

\* C9: sort_by with an attribute name outside the sortable ones always fails with
\* ValueError, for every collection and tier, and leaves the order as it was.
C9_UnsupportedAttrFails ==
    [][(last'.op = "sort_by" /\ last'.arg \notin Sortable)
          => (last'.raised = "ValueError" /\ fc' = fc)]_vars

SizeOf(id) == ents[id].size_on_disk

\* C10: right after sort_by("size_on_disk") iteration yields every entry exactly
\* once, the sizes non-decreasing, or non-increasing with reverse=True.
C10_SortBySize ==
    \A n \in {"A", "B"} :
        (last.op = "sort_by" /\ last.fc = n /\ last.arg = "size_on_disk"
            /\ last.raised = "")
            => LET ws == iterfiles(fc[n])
                   ps == iterpaths(fc[n])
               IN  /\ OnceEach(ws, Range(EntSeq(fc[n])))
                   /\ OnceEach(ps, Keys(fc[n]))
                   /\ \A i \in DOMAIN ws : ws[i] = Lookup(fc[n], ps[i])
                   /\ \A i, j \in DOMAIN ws :
                          i < j => IF last.reverse THEN SizeOf(ws[i]) >= SizeOf(ws[j])
                                   ELSE SizeOf(ws[i]) <= SizeOf(ws[j])

\* a descending sort by size has just put two files of different sizes in an
\* order other than the insertion order
C10_Witness ==
    \E n \in {"A", "B"} :
        /\ last.op = "sort_by" /\ last.fc = n /\ last.arg = "size_on_disk"
        /\ last.raised = "" /\ last.reverse
        /\ Len(fc[n].files) = 2
        /\ iterpaths(fc[n]) # KeySeq(fc[n])
        /\ SizeOf(iterfiles(fc[n])[1]) > SizeOf(iterfiles(fc[n])[2])

\* C11: a WinFile just constructed from an existing regular file, under any
\* tier, has basename = fname + ext and abspath = join(dirname, basename).
C11_FreshFields ==
    (last.op = "WinFile" /\ last.raised = "")
        => LET w == ents[1]
           IN  /\ w.basename = w.fname \o w.ext
               /\ w.abspath = join(w.dirname, w.basename)

\* a non-empty extension that lacks the leading separator
Malformed(ext) == ext # <<>> /\ ~startswith(ext, <<".">>)

\* C12: whatever was constructed, renamed and updated, the ext of the WinFile is
\* lower-cased and is empty or begins with "."; and a rename or update given a
\* malformed extension raises and changes neither the WinFile nor the disk.
C12_ExtWellFormed ==
    /\ [](Built(ents[1])
            => /\ ents[1].ext = lower(ents[1].ext)
               /\ (ents[1].ext = <<>> \/ startswith(ents[1].ext, <<".">>)))
    /\ [][(last'.op \in {"rename", "update"} /\ Malformed(last'.args.new_ext))
            => (last'.raised # "" /\ ents' = ents /\ disk' = disk)]_vars

\* C13: a rename that raises leaves every field of the WinFile as it was, and for
\* a malformed extension it raises with the disk untouched; a rename that returns
\* leaves the file, with the bytes it had, at the WinFile's new abspath and no
\* longer at the old one.
C13_RenameDiskFirst ==
    [][(last'.op = "rename")
         => /\ Malformed(last'.args.new_ext)
                 => (last'.raised = "ValueError" /\ disk' = disk)
            /\ last'.raised # "" => ents' = ents
            /\ last'.raised = ""
                 => /\ ents'[1].abspath \in DOMAIN disk'
                    /\ disk'[ents'[1].abspath] = disk[ents[1].abspath]
                    /\ ents'[1].abspath # ents[1].abspath
                          => ents[1].abspath \notin DOMAIN disk']_vars

\* a rename into a directory that does not exist has just raised, the WinFile
\* still naming the file it was built from
C13_Witness ==
    /\ last.op = "rename"
    /\ last.raised = "OSError"
    /\ last.args.new_dirname # <<>>
    /\ ents[1].abspath \in DOMAIN disk

\* C14: rename() with no argument, on a WinFile whose file exists, does not
\* raise and changes neither the disk nor any field of the WinFile.
C14_RenameNothing ==
    [][(last'.op = "rename" /\ last'.args.new_dirname = <<>>
            /\ last'.args.new_fname = <<>> /\ last'.args.new_ext = <<>>
            /\ ents[1].abspath \in DOMAIN disk)
         => (last'.raised = "" /\ disk' = disk /\ ents' = ents)]_vars

\* C15: copy_to(dst, overwrite) from a WinFile whose file exists, to a dst in an
\* existing directory: with dst existing and overwrite false it raises
\* FileExistsError and the disk is as it was; otherwise it returns with dst
\* holding the bytes the source had before and the source as it was.
C15_CopyTo ==
    [][(last'.op = "copy_to" /\ ents[1].abspath \in DOMAIN disk
            /\ split(os_path_abspath(last'.args.dst))[1] \in Folders
            /\ os_path_abspath(last'.args.dst) \notin Folders)
         => LET s == ents[1].abspath
                d == os_path_abspath(last'.args.dst)
            IN  IF os_path_exists(last'.args.dst) /\ ~last'.args.overwrite
                THEN last'.raised = "FileExistsError" /\ disk' = disk
                ELSE /\ last'.raised = ""
                     /\ d \in DOMAIN disk' /\ disk'[d] = disk[s]
                     /\ s \in DOMAIN disk' /\ disk'[s] = disk[s]]_vars

\* the files the walks of the roots discover
Found(roots) == {p \in DOMAIN disk : \E i \in DOMAIN roots : Under(p, roots[i])}

\* the extension of a path, compared without regard to case
ExtOf(p) == lower(splitext(p)[2])

\* some ignore rule matches the file p as found under root, case-insensitively:
\* its relative path starts with a prefix, its extension is listed, or its
\* relative path contains a pattern
RuleMatches(p, root, a) ==
    LET rel == lower(relpath(p, root))
    IN  \/ \E i \in DOMAIN a.ignore : startswith(rel, lower(a.ignore[i]))
        \/ \E i \in DOMAIN a.ignore_ext : ExtOf(p) = lower(a.ignore_ext[i])
        \/ \E i \in DOMAIN a.ignore_pattern : contains(rel, lower(a.ignore_pattern[i]))

\* C16: from_path_except returns, each once, exactly the files found under some
\* root for which none of the rules matches relative to that root, the rules
\* compared case-insensitively; with .log among ignore_ext no returned WinFile
\* has the extension .log.
C16_ExceptRules ==
    (last.op = "from_path_except" /\ last.raised = "")
        => LET a == last.args
               R == fc["R"]
           IN  /\ OnceEach(KeySeq(R),
                           {p \in DOMAIN disk :
                              \E i \in DOMAIN a.roots :
                                 Under(p, a.roots[i]) /\ ~RuleMatches(p, a.roots[i], a)})
               /\ \A i \in DOMAIN R.files : R.files[i].ent.abspath = R.files[i].key
               /\ (\E i \in DOMAIN a.ignore_ext : lower(a.ignore_ext[i]) = Ext_log)
                     => \A i \in DOMAIN R.files :
                           R.files[i].ent.ext # Ext_log /\ ExtOf(R.files[i].key) # Ext_log

\* from_path_except over nested roots with a prefix rule has kept a file of the
\* inner root and dropped a file found under the outer root only
C16_Witness ==
    /\ last.op = "from_path_except"
    /\ last.raised = ""
    /\ last.args.roots = <<Dir_d, Dir_d_s>>
    /\ last.args.ignore # <<>>
    /\ T_d_s_b_jpg \in Keys(fc["R"])
    /\ T_d_sa_t \in DOMAIN disk
    /\ T_d_sa_t \notin Keys(fc["R"])

\* the criterion holds of the file at path p
PredicateOn(crit, p) ==
    CASE crit.by = "size" -> BigLeq(crit.min_size, disk[p]) /\ BigLeq(disk[p], crit.max_size)
      [] crit.kind = "str" -> ExtOf(p) = crit.ext
      [] OTHER -> ExtOf(p) \in crit.ext

\* C17: from_path_by_criterion with keepboth=True returns two collections that
\* partition the files found under the roots, each file once: the first holds
\* exactly those the predicate holds of, the second exactly the others.
C17_KeepBothPartition ==
    (last.op = "from_path_by_criterion" /\ last.raised = "")
        => LET yes == fc["R"]
               no == fc["B"]
               found == Found(last.args.roots)
           IN  /\ OnceEach(KeySeq(yes),
                           {p \in found : PredicateOn(last.args.criterion, p)})
               /\ OnceEach(KeySeq(no),
                           {p \in found : ~PredicateOn(last.args.criterion, p)})
               /\ Keys(yes) \cap Keys(no) = {}
               /\ Keys(yes) \cup Keys(no) = found

\* a keepboth call over nested roots has put files in both collections
C17_Witness ==
    /\ last.op = "from_path_by_criterion"
    /\ last.raised = ""
    /\ Len(last.args.roots) = 2
    /\ \E p \in DOMAIN disk : Under(p, last.args.roots[1]) /\ Under(p, last.args.roots[2])
    /\ fc["R"].files # <<>>
    /\ fc["B"].files # <<>>

\* the extensions an ext argument gives: the string itself or the members
GivenExts(ext) == IF ext.kind = "str" THEN {ext.v} ELSE ext.v

\* C18: from_path_by_ext, for ext a single extension or any collection of
\* extensions, returns exactly the files found whose extension is one of them.
C18_ByExt ==
    (last.op = "from_path_by_ext" /\ last.raised = "")
        => Keys(fc["R"]) = {p \in Found(last.args.roots) :
                              ExtOf(p) \in GivenExts(last.args.ext)}

\* the default of max_size as documented: 2^40 - 1
DocumentedMaxSize == <<1023, 1023, 1023, 1023>>

\* C19: from_path_by_size returns exactly the files found with
\* min_size <= size <= max_size, where min_size defaults to 0 and max_size to
\* 2^40 - 1.
C19_BySize ==
    (last.op = "from_path_by_size" /\ last.raised = "")
        => LET lo == IF last.args.min_size.given THEN last.args.min_size.v ELSE <<>>
               hi == IF last.args.max_size.given THEN last.args.max_size.v
                     ELSE DocumentedMaxSize
           IN  Keys(fc["R"]) = {p \in Found(last.args.roots) :
                                  BigLeq(lo, disk[p]) /\ BigLeq(disk[p], hi)}

\* n * m for a size n and a machine integer m below 1024, on Len(n) + 1 digits
RECURSIVE TimesSmall(_, _, _)
TimesSmall(n, m, carry) ==
    IF n = <<>> THEN <<carry>>
    ELSE <<(Head(n) * m + carry) % 1024>>
            \o TimesSmall(Tail(n), m, (Head(n) * m + carry) \div 1024)

\* size / 1024^k rounded to `precision` decimals, times 10^precision, for a size
\* of k + 1 digits: the nearest, either one on a tie
Rounded(size, precision) ==
    LET k == Len(size) - 1
        product == TimesSmall(size, 10 ^ precision, 0)
        whole == product[k + 1] + 1024 * product[k + 2]
        rest == SubSeq(product, 1, k)
        half == [i \in 1..k |-> IF i = k THEN 512 ELSE 0]
    IN  IF rest = half THEN {whole, whole + 1}
        ELSE IF BigLess(half, rest) THEN {whole + 1}
        ELSE {whole}

\* C20: repr_data_size shows a size below 1024 as the integer byte count with
\* unit B, and a larger size (below 1024^9) with the first unit at which the
\* divided-down value is below 1024, the number being size / 1024^k rounded to
\* `precision` decimals; the call returns for every such size.
C20_ReprDataSize ==
    (last.op = "repr_data_size")
        => LET size == last.args.size_in_bytes
               shown == last.result
           IN  /\ shown.raised = ""
               /\ IF Len(size) <= 1
                  THEN shown.unit = "B" /\ shown.places = 0 /\ shown.scaled = Small(size)
                  ELSE /\ shown.unit = magnitude_of_data[Len(size)]
                       /\ shown.places = last.args.precision
                       /\ shown.scaled \in Rounded(size, last.args.precision)

\* the files and the folders directly in the directory d: the paths under d
\* with no further separator
DirectlyIn(paths, d) ==
    {p \in paths : startswith(p, d \o <<"/">>)
                   /\ \A i \in (Len(d) + 2)..Len(p) : p[i] # "/"}

\* C21: a freshly constructed WinDir has size_total >= size_current,
\* num_file_total >= num_file_current and num_folder_total >= num_folder_current,
\* the current values counting only the directory's immediate files and
\* subfolders.
C21_TotalsCoverCurrent ==
    (last.op = "WinDir" /\ last.raised = "")
        => LET d == ents[1]
           IN  /\ BigLeq(d.size_current, d.size_total)
               /\ d.num_file_current <= d.num_file_total
               /\ d.num_folder_current <= d.num_folder_total
               /\ d.num_file_current = Cardinality(DirectlyIn(DOMAIN disk, d.abspath))
               /\ d.num_folder_current = Cardinality(DirectlyIn(Folders, d.abspath))
               /\ d.size_current = SizeOver(DirectlyIn(DOMAIN disk, d.abspath))

\* a WinDir whose tree holds more bytes, files and folders than its own level
C21_Witness ==
    /\ last.op = "WinDir" /\ last.raised = ""
    /\ ents[1].num_file_current > 0
    /\ ents[1].num_file_current < ents[1].num_file_total
    /\ ents[1].num_folder_current < ents[1].num_folder_total
    /\ BigLess(ents[1].size_current, ents[1].size_total)
    /\ BigLess(<<>>, ents[1].size_current)

\* C22: after any sequence of use_fast_init, use_regular_init, use_slow_init and
\* set_initialize_mode calls (a call with an invalid complexity raises and
\* changes nothing), WinFile.init_mode is 1, 2 or 3 and is the tier the next
\* WinFile construction applies: 1 sets no size and no hash, 2 sets the size
\* (and with it the timestamps) but no hash, 3 sets the size and the hash.
C22_ModeIsTheTierApplied ==
    /\ [](init_mode \in {1, 2, 3} /\ Level(initialize) = init_mode)
    /\ [][/\ (last'.op = "set_initialize_mode" /\ last'.raised # "")
                => UNCHANGED <<init_mode, initialize>>
          /\ (last'.op = "add" /\ last'.arg = "str" /\ last'.raised = "" /\ ~last'.msg)
                => LET made == ents'[fc'[last'.fc].files[Len(fc'[last'.fc].files)].ent]
                   IN  /\ made.abspath = last'.path
                       /\ (made.size_on_disk # Unset) = (init_mode \in {2, 3})
                       /\ (init_mode \in {2, 3}) => made.size_on_disk = getsize(made.abspath)
                       /\ (made.md5 # Unset) = (init_mode = 3)
                       /\ (init_mode = 3) => made.md5 = md5file(made.abspath)]_vars

\* a WinFile built with its hash, after a rejected set_initialize_mode call left
\* the slow tier in place
C22_Witness ==
    /\ last.op = "set_initialize_mode" /\ last.raised = "ValueError"
    /\ init_mode = 3
    /\ \E i \in DOMAIN fc["A"].files : ents[fc["A"].files[i].ent].md5 # Unset

\* path iteration and entity iteration of c agree: equal length len(c), the
\* i-th entity the one stored under the i-th path
IterationsAgree(c) ==
    /\ Len(iterpaths(c)) = Len(c.files)
    /\ Len(iterfiles(c)) = Len(c.files)
    /\ \A i \in DOMAIN iterpaths(c) :
           iterpaths(c)[i] \in Keys(c) /\ iterfiles(c)[i] = Lookup(c, iterpaths(c)[i])

\* C23: a collection that has not been mutated since its last sort_by, or was
\* never sorted, iterates its paths and its entities in sequences of length
\* len(), the i-th entity stored under the i-th path, in the order of that
\* sort_by, else in insertion order; and an iteration started after a mutation
\* (add, remove) yields the collection's current contents.
C23_IterationFollowsContents ==
    \A n \in {"A", "B"} :
        LET c == fc[n]
        IN  /\ ~c.hasorder => (IterationsAgree(c) /\ iterpaths(c) = KeySeq(c))
            /\ (last.op = "sort_by" /\ last.fc = n /\ last.raised = "")
                  => /\ IterationsAgree(c)
                     /\ \A i, j \in DOMAIN iterfiles(c) :
                            i < j => InOrder(GetAttr(ents[iterfiles(c)[i]], last.arg),
                                             GetAttr(ents[iterfiles(c)[j]], last.arg),
                                             last.reverse)
            /\ (last.op \in {"add", "remove"} /\ last.fc = n /\ last.raised = ""
                   /\ ~last.msg)
                  => /\ OnceEach(iterpaths(c), Keys(c))
                     /\ OnceEach(iterfiles(c), Range(EntSeq(c)))

\* C24: when the left operand A had an explicit order established by sort_by,
\* iterating the result of A + B or A - B, by paths or by entities, yields
\* exactly the paths the result contains, each exactly once.
C24_CombinedIteration ==
    (/\ last.op \in {"__add__", "__sub__"} /\ last.raised = "" /\ last.fc = "A"
     /\ fc["A"].hasorder /\ OnceEach(fc["A"].order, Keys(fc["A"])))
        => /\ OnceEach(iterpaths(fc["R"]), Keys(fc["R"]))
           /\ OnceEach(iterfiles(fc["R"]), Range(EntSeq(fc["R"])))

\* C25: after any sequence of collection operations interleaved with rename or
\* update calls on entities the collection holds, every key of the collection's
\* mapping is the abspath of the entity stored under it, so that the membership
\* tests by path and by entity agree.
C25_KeyIsAbspath ==
    \A i \in DOMAIN fc["A"].files :
        LET e == fc["A"].files[i]
        IN  /\ e.key = ents[e.ent].abspath
            /\ Contains(fc["A"], [kind |-> "WinFile", v |-> e.ent])
                  = Contains(fc["A"], [kind |-> "str", v |-> e.key])

====
